---- MODULE Spec2Model ----
(***************************************************************************)
(* A model of src/nix/flake.cc: the output validator of 'nix flake check'  *)
(* (CmdFlakeCheck::run), the lock-tree walkers of 'nix flake list-inputs'  *)
(* and 'nix flake archive', and the output tree of 'nix flake show'.       *)
(*                                                                         *)
(* The flake's outputs are an input of the program.  They are revealed to  *)
(* the model as the code reads them: every loop over an attribute set      *)
(* draws the attribute it visits next from a small set of values.          *)
(***************************************************************************)
EXTENDS Integers, Sequences, FiniteSets, TLC

VARIABLES
    cmd,            \* the sub-command that runs: "check", "archive",
                    \* "list-inputs", "show"
    pc,             \* the position of the run
    build,          \* CmdFlakeCheck::build
    readOnlyMode,   \* settings.readOnlyMode
    oidx,           \* index in OutputNames of the output the callback is called with
    next,           \* index of the output enumerateOutputs visits next, 0 at the end
    vOutput,        \* the callback's vOutput
    attr,           \* the attribute a first-level loop of the callback is at
    kidx,           \* position of that loop in its attribute set
    frames,         \* the active checkHydraJobs calls: attrPath and attrs visited
    drvPaths,       \* std::vector<StorePathWithOutputs> drvPaths
    err,            \* the Error in flight, NoErr when there is none
    warnings,       \* the names warn() was called with
    built,          \* the arguments store->buildPaths was called with
    lock,           \* the lock file's nodes: the inputs of each, root 0
    json,           \* MixJSON::json
    dryRun,         \* MixDryRun::dryRun
    dstUri,         \* CmdFlakeArchive::dstUri
    stack,          \* the active calls of recurse or traverse: node, next input
    sources,        \* StorePathSet sources
    fetched,        \* the nodes fetchTree was called for
    copied,         \* the arguments copyPaths was called with
    out,            \* what was written to stdout
    showLegacy,     \* CmdFlakeShow::showLegacy
    visits,         \* the active calls of visit that are in recurse(): attrPath
                    \* and the attributes their loop has been at
    visitor,        \* the attrPath and the value visit was last called with
    shown           \* what that call of visit wrote to stdout

checkVars == <<build, readOnlyMode, oidx, next, vOutput, attr, kidx, frames,
               drvPaths, err, warnings, built>>
walkVars == <<lock, json, dryRun, dstUri, stack, sources, fetched, copied, out>>
showVars == <<showLegacy, visits, visitor, shown>>
vars == <<cmd, pc, checkVars, walkVars, showVars>>

\* Bound: attributes of an attribute set that is drawn whole, and attributes
\* visited by a loop whose keys are free names.
MaxAttrs == 2
\* Bound: nested checkHydraJobs calls.
MaxDepth == 2
\* Bound: the length drvPaths grows to.
MaxDrvPaths == 3
\* Bound: the nodes of a lock file are 0..MaxNode.
MaxNode == 2
\* Bound: nested calls of recurse and of traverse; more than a lock file
\* without a cycle needs.
MaxStack == 5

------------------------------------------------------------------------------
(* Values of the evaluator, as far as flake.cc reads them. *)

NoValue == [type |-> "none"]
\* a thunk whose forcing throws an EvalError
ThunkV == [type |-> "tThunk"]
StringV == [type |-> "tString"]
\* an attribute set; drv: it has type = "derivation"; app: App() parses it
AttrsV(as) == [type |-> "tAttrs", drv |-> FALSE, drvPath |-> "", attrs |-> as,
               app |-> FALSE, context |-> {}]
DrvV(p) == [type |-> "tAttrs", drv |-> TRUE, drvPath |-> p, attrs |-> <<>>,
            app |-> FALSE, context |-> {}]
AppV(ctx) == [type |-> "tAttrs", drv |-> FALSE, drvPath |-> "", attrs |-> <<>>,
              app |-> TRUE, context |-> ctx]
\* ExprLambda: arg, matchAttrs, formals->ellipsis, and what its body is
LambdaV(arg, matchAttrs, ellipsis, body) ==
    [type |-> "tLambda", arg |-> arg, matchAttrs |-> matchAttrs,
     ellipsis |-> ellipsis, body |-> body]
\* an expression that is a lambda, and one that is not
LambdaE(arg, matchAttrs) == [lambda |-> TRUE, arg |-> arg, matchAttrs |-> matchAttrs]
OtherE == [lambda |-> FALSE, arg |-> "", matchAttrs |-> FALSE]

\* store paths of derivations (.drv) and of a source
DrvPathNames == {"d1.drv", "d2.drv"}
SrcPathNames == {"s1"}

\* sequences over S of length 0..n
SeqUpTo(S, n) == UNION {[1..m -> S] : m \in 0..n}

------------------------------------------------------------------------------
(* Errors: the message, its argument, and the prefixes added while the     *)
(* exception unwinds, outermost first.                                     *)

NoErr == [msg |-> "", arg |-> "", prefix |-> <<>>]
Error(msg, arg) == [msg |-> msg, arg |-> arg, prefix |-> <<>>]
addPrefix(e, what, path) ==
    [e EXCEPT !.prefix = <<[what |-> what, path |-> path]>> \o @]

\* state->forceValue(v, pos)
forceValue(v) ==
    IF v.type = "tThunk" THEN Error("evaluation error", "") ELSE NoErr

\* state->forceAttrs(v, pos)
forceAttrs(v) ==
    IF forceValue(v) # NoErr THEN forceValue(v)
    ELSE IF v.type # "tAttrs" THEN Error("value is not a set", "")
    ELSE NoErr

\* state->isDerivation(v), of a forced attribute set
isDerivation(v) == v.type = "tAttrs" /\ v.drv

------------------------------------------------------------------------------
(* The outputs of the flake. *)

\* The names an 'outputs' attribute set can hold, in the order in which the
\* loop of enumerateOutputs meets them; "lib" stands for every name that no
\* branch of the callback knows.
OutputNames ==
    <<"overlay", "overlays", "nixosModule", "nixosModules",
      "nixosConfigurations", "hydraJobs", "legacyPackages", "defaultPackage",
      "devShell", "packages", "checks", "lib", "apps", "defaultApp">>

\* The keys a system-keyed output can hold, in iteration order.
SystemKeys == <<"a-d", "foo", "x-l">>

\* The characters of a key.
Chars(s) ==
    CASE s = "a-d" -> <<"a", "-", "d">>
      [] s = "foo" -> <<"f", "o", "o">>
      [] s = "x-l" -> <<"x", "-", "l">>

\* settings.thisSystem.get()
thisSystem == "x-l"

npos == -1
\* std::string::find(c): the first position of c, from 0, or npos
find(s, c) ==
    LET hits == {i \in 1..Len(Chars(s)) : Chars(s)[i] = c}
    IN  IF hits = {} THEN npos
        ELSE (CHOOSE i \in hits : \A j \in hits : i <= j) - 1

\* the name of the i-th attribute of a set whose names are free
AttrName(i) == "n" \o ToString(i)

------------------------------------------------------------------------------
(* The checkers of CmdFlakeCheck::run.  A checker that can throw returns    *)
(* the error it throws, NoErr when it returns normally.                     *)

\* a variant of checkSystemName that looks for an underscore
checkSystemNameUnderscore(system) ==
    IF find(system, "_") = npos
    THEN Error("is not a valid system type", system)
    ELSE NoErr

checkSystemName(system) ==
    IF find(system, "-") = npos
    THEN Error("is not a valid system type", system)
    ELSE NoErr

\* getDerivation(*state, v, false): the DrvInfo of a derivation, nothing for
\* any other value
getDerivation(v) ==
    IF forceValue(v) # NoErr
    THEN [err |-> forceValue(v), found |-> FALSE, drvPath |-> ""]
    ELSE [err |-> NoErr, found |-> isDerivation(v),
          drvPath |-> IF isDerivation(v) THEN v.drvPath ELSE ""]

checkDerivation(attrPath, v) ==
    LET drvInfo == getDerivation(v)
        e == IF drvInfo.err # NoErr THEN drvInfo.err
             ELSE IF ~drvInfo.found THEN Error("is not a derivation", attrPath)
             ELSE NoErr
    IN  IF e # NoErr
        THEN [err |-> addPrefix(e, "while checking the derivation", attrPath),
              drvPath |-> ""]
        ELSE [err |-> NoErr, drvPath |-> drvInfo.drvPath]

\* The elements a string context can hold, in the order of the PathSet.
CtxRefs ==
    <<[path |-> "d1.drv", output |-> "dev"], [path |-> "d1.drv", output |-> "out"],
      [path |-> "d2.drv", output |-> "out"], [path |-> "d1.drv", output |-> ""],
      [path |-> "s1", output |-> ""]>>

\* decodeContext(i): the path and the output name of a context element
decodeContext(i) == <<i.path, i.output>>

\* StorePath::isDerivation
isDerivationPath(p) == p \in DrvPathNames

\* App(*state, v): the context of an app definition
App(v) ==
    IF forceValue(v) # NoErr THEN [err |-> forceValue(v), context |-> {}]
    ELSE IF v.type = "tAttrs" /\ v.app THEN [err |-> NoErr, context |-> v.context]
    ELSE [err |-> Error("not an app definition", ""), context |-> {}]

\* a variant of appContextLoop that keeps drvPaths free of repetitions
RECURSIVE appContextLoopOnce(_, _, _)
appContextLoopOnce(context, i, dp) ==
    IF i > Len(CtxRefs) THEN dp
    ELSE IF CtxRefs[i] \notin context THEN appContextLoopOnce(context, i + 1, dp)
    ELSE LET drvPath == decodeContext(CtxRefs[i])[1]
             outputName == decodeContext(CtxRefs[i])[2]
         IN  IF outputName # "" /\ isDerivationPath(drvPath)
                /\ \A j \in 1..Len(dp) : dp[j] # drvPath
             THEN appContextLoopOnce(context, i + 1, Append(dp, drvPath))
             ELSE appContextLoopOnce(context, i + 1, dp)

\* the loop of checkApp over app.context, from CtxRefs[i] on
RECURSIVE appContextLoop(_, _, _)
appContextLoop(context, i, dp) ==
    IF i > Len(CtxRefs) THEN dp
    ELSE IF CtxRefs[i] \notin context THEN appContextLoop(context, i + 1, dp)
    ELSE LET drvPath == decodeContext(CtxRefs[i])[1]
             outputName == decodeContext(CtxRefs[i])[2]
         IN  IF outputName # "" /\ isDerivationPath(drvPath)
             THEN appContextLoop(context, i + 1, Append(dp, drvPath))
             ELSE appContextLoop(context, i + 1, dp)

\* checkApp: the error and the drvPaths it leaves
checkApp(attrPath, v, dp) ==
    LET app == App(v)
    IN  IF app.err # NoErr
        THEN [err |-> addPrefix(app.err, "while checking the app definition", attrPath),
              drvPaths |-> dp]
        ELSE [err |-> NoErr, drvPaths |-> appContextLoop(app.context, 1, dp)]

\* a variant of checkOverlay that does not look at matchAttrs of the body
checkOverlayAnyBody(attrPath, v) ==
    LET e == IF forceValue(v) # NoErr THEN forceValue(v)
             ELSE IF v.type # "tLambda" \/ v.matchAttrs \/ v.arg # "final"
             THEN Error("overlay does not take an argument named 'final'", "")
             ELSE IF ~v.body.lambda \/ v.body.arg # "prev"
             THEN Error("overlay does not take an argument named 'prev'", "")
             ELSE NoErr
    IN  IF e # NoErr THEN addPrefix(e, "while checking the overlay", attrPath)
        ELSE NoErr

checkOverlay(attrPath, v) ==
    LET e == IF forceValue(v) # NoErr THEN forceValue(v)
             ELSE IF v.type # "tLambda" \/ v.matchAttrs \/ v.arg # "final"
             THEN Error("overlay does not take an argument named 'final'", "")
             ELSE IF ~v.body.lambda \/ v.body.matchAttrs \/ v.body.arg # "prev"
             THEN Error("overlay does not take an argument named 'prev'", "")
             ELSE NoErr
    IN  IF e # NoErr THEN addPrefix(e, "while checking the overlay", attrPath)
        ELSE NoErr

\* the loop of checkModule over the members of an attribute set
RECURSIVE moduleAttrsLoop(_, _)
moduleAttrsLoop(attrs, i) ==
    IF i > Len(attrs) THEN NoErr
    ELSE IF forceValue(attrs[i]) # NoErr
    THEN addPrefix(forceValue(attrs[i]), "while evaluating the option", AttrName(i))
    ELSE moduleAttrsLoop(attrs, i + 1)

\* a variant of checkModule that lets every function pass
checkModuleAnyFunction(attrPath, v) ==
    LET e == IF forceValue(v) # NoErr THEN forceValue(v)
             ELSE IF v.type = "tLambda" THEN NoErr
             ELSE IF v.type = "tAttrs" THEN moduleAttrsLoop(v.attrs, 1)
             ELSE Error("module must be a function or an attribute set", "")
    IN  IF e # NoErr THEN addPrefix(e, "while checking the NixOS module", attrPath)
        ELSE NoErr

checkModule(attrPath, v) ==
    LET e == IF forceValue(v) # NoErr THEN forceValue(v)
             ELSE IF v.type = "tLambda"
             THEN IF ~v.matchAttrs \/ ~v.ellipsis
                  THEN Error("module must match an open attribute set ('{ config, ... }')", "")
                  ELSE NoErr
             ELSE IF v.type = "tAttrs" THEN moduleAttrsLoop(v.attrs, 1)
             ELSE Error("module must be a function or an attribute set", "")
    IN  IF e # NoErr THEN addPrefix(e, "while checking the NixOS module", attrPath)
        ELSE NoErr

\* findAlongAttrPath(*state, "config.system.build.toplevel", bindings, v): a
\* configuration is drawn as the set of what that path leads to, empty when
\* the path does not exist
findAlongAttrPath(v) ==
    IF forceAttrs(v) # NoErr THEN [err |-> forceAttrs(v), value |-> NoValue]
    ELSE IF v.attrs = <<>>
    THEN [err |-> Error("attribute in selection path not found", ""), value |-> NoValue]
    ELSE [err |-> NoErr, value |-> v.attrs[1]]

checkNixOSConfiguration(attrPath, v) ==
    LET found == findAlongAttrPath(v)
        e == IF found.err # NoErr THEN found.err
             ELSE IF forceAttrs(found.value) # NoErr THEN forceAttrs(found.value)
             ELSE IF ~isDerivation(found.value)
             THEN Error("attribute 'config.system.build.toplevel' is not a derivation", "")
             ELSE NoErr
    IN  IF e # NoErr THEN addPrefix(e, "while checking the NixOS configuration", attrPath)
        ELSE NoErr

\* The head of checkHydraJobs, lines 306-309: what the call throws before
\* its loop.
hydraJobsHead(v) ==
    IF forceAttrs(v) # NoErr THEN forceAttrs(v)
    ELSE IF isDerivation(v)
    THEN Error("jobset should not be a derivation at top-level", "")
    ELSE NoErr

\* a variant of hydraUnwind in which only the innermost call adds its prefix
hydraUnwindInnermost(e, frs) ==
    IF frs = <<>> THEN e
    ELSE addPrefix(e, "while checking the Hydra jobset", frs[Len(frs)].path)

\* The catch of every active checkHydraJobs call, innermost first: each adds
\* the prefix of its own attrPath.
RECURSIVE hydraUnwind(_, _)
hydraUnwind(e, frs) ==
    IF frs = <<>> THEN e
    ELSE hydraUnwind(addPrefix(e, "while checking the Hydra jobset", frs[Len(frs)].path),
                     SubSeq(frs, 1, Len(frs) - 1))

------------------------------------------------------------------------------
(* The values the outputs are drawn from. *)

NoAttr == [name |-> "", value |-> NoValue]

\* what an output that a branch loops over can be
TopValues == {AttrsV(<<>>), StringV, ThunkV}
\* what checkDerivation can be handed
DrvLeaves == {DrvV(p) : p \in DrvPathNames} \cup {StringV, ThunkV}
\* what checkApp can be handed
AppLeaves ==
    {AppV({}), AppV({CtxRefs[2]}), AppV({CtxRefs[1], CtxRefs[2]}),
     AppV({CtxRefs[3], CtxRefs[5]}), AppV({CtxRefs[4], CtxRefs[5]}), StringV}
\* an attribute set of leaves, or something that is no attribute set
SetsOf(leaves) == {AttrsV(as) : as \in SeqUpTo(leaves, MaxAttrs)} \cup {StringV}
DrvSets == SetsOf(DrvLeaves)
AppSets == SetsOf(AppLeaves)
\* functions: x: ..., x@{...}: ..., {...}: ..., each over the bodies an
\* overlay check tells apart
LambdaBodies ==
    {OtherE, LambdaE("prev", FALSE), LambdaE("super", FALSE),
     LambdaE("prev", TRUE), LambdaE("", TRUE)}
LambdaValues ==
    {LambdaV(a, FALSE, FALSE, b) : a \in {"final", "self"}, b \in LambdaBodies}
    \cup {LambdaV(a, TRUE, e, b) : a \in {"final", ""}, e \in BOOLEAN, b \in LambdaBodies}
OverlayValues == LambdaValues \cup {StringV, ThunkV, AttrsV(<<>>)}
ModuleValues ==
    LambdaValues \cup {StringV, ThunkV}
    \cup {AttrsV(as) : as \in SeqUpTo({StringV, ThunkV}, MaxAttrs)}
ConfigValues ==
    {AttrsV(<<>>), StringV} \cup {AttrsV(<<t>>) : t \in DrvLeaves \cup {AttrsV(<<>>)}}
\* what checkHydraJobs can meet; an attribute set that is no derivation is a
\* nested jobset, whose attributes the nested call draws
JobValues == {DrvV("d1.drv"), AttrsV(<<>>), StringV, ThunkV}

------------------------------------------------------------------------------
(* nix flake check *)

\* CmdFlakeCheck::run up to the call of enumerateOutputs
Run ==
    /\ cmd = "check" /\ pc = "start"
    /\ readOnlyMode' = ~build
    /\ pc' = "outputs"
    /\ UNCHANGED <<walkVars, showVars, cmd, build, oidx, next, vOutput, attr, kidx, frames, drvPaths,
                   err, warnings, built>>

\* enumerateOutputs calls the callback with the output named n; the loop's
\* next attribute is any later name, or none
Enter(n) ==
    /\ cmd = "check" /\ pc = "outputs"
    /\ next # 0 /\ OutputNames[next] = n
    /\ oidx' = next
    /\ next' \in {0} \cup ((next + 1)..Len(OutputNames))

\* inside a loop of the callback for the output named n
InLoop(n) == cmd = "check" /\ pc = "loop" /\ OutputNames[oidx] = n

\* the callback's catch: an error gets the prefix of the output and is
\* thrown on, out of enumerateOutputs and of run
Catch(e, n) == addPrefix(e, "while checking flake output", n)

\* a variant of Outcome that notes the error and goes on
OutcomeKeepGoing(n, e, pcOk) ==
    /\ pc' = pcOk
    /\ err' = IF e # NoErr THEN Catch(e, n) ELSE err

\* how a step of the callback for output n that ends with e goes on
Outcome(n, e, pcOk) ==
    IF e # NoErr
    THEN pc' = "failed" /\ err' = Catch(e, n)
    ELSE pc' = pcOk /\ err' = err

\* forceValue(vOutput) and forceAttrs(vOutput) of a branch that loops
BeginAttrs(n) ==
    /\ Enter(n)
    /\ \E v \in TopValues :
        /\ vOutput' = v
        /\ Outcome(n, forceAttrs(v), "loop")
    /\ attr' = NoAttr /\ kidx' = 0
    /\ UNCHANGED <<walkVars, showVars, cmd, build, readOnlyMode, frames, drvPaths, warnings, built>>

\* the loop of a branch is at the end of the attributes: the callback returns
EndAttrs(n) ==
    /\ InLoop(n)
    /\ pc' = "return"
    /\ UNCHANGED <<walkVars, showVars, cmd, checkVars>>

\* the body of a loop has run for attr: the loop goes to its next attribute
Continue ==
    /\ cmd = "check" /\ pc = "attr"
    /\ pc' = "loop" /\ attr' = NoAttr
    /\ UNCHANGED <<walkVars, showVars, cmd, build, readOnlyMode, oidx, next, vOutput, kidx, frames,
                   drvPaths, err, warnings, built>>

\* the callback returns to the loop of enumerateOutputs
Return ==
    /\ cmd = "check" /\ pc = "return"
    /\ pc' = "outputs"
    /\ vOutput' = NoValue /\ attr' = NoAttr /\ kidx' = 0
    /\ UNCHANGED <<walkVars, showVars, cmd, build, readOnlyMode, oidx, next, frames, drvPaths, err,
                   warnings, built>>

\* a variant of checksLoop that collects the derivations of every system
RECURSIVE checksLoopEverySystem(_, _, _, _)
checksLoopEverySystem(system, attrs, i, dp) ==
    IF i > Len(attrs) THEN [err |-> NoErr, drvPaths |-> dp]
    ELSE LET r == checkDerivation("checks." \o system \o "." \o AttrName(i), attrs[i])
         IN  IF r.err # NoErr THEN [err |-> r.err, drvPaths |-> dp]
             ELSE checksLoopEverySystem(system, attrs, i + 1, Append(dp, r.drvPath))

\* the loop of the checks branch over attr2, from attrs[i] on
RECURSIVE checksLoop(_, _, _, _)
checksLoop(system, attrs, i, dp) ==
    IF i > Len(attrs) THEN [err |-> NoErr, drvPaths |-> dp]
    ELSE LET r == checkDerivation("checks." \o system \o "." \o AttrName(i), attrs[i])
         IN  IF r.err # NoErr THEN [err |-> r.err, drvPaths |-> dp]
             ELSE IF system = thisSystem
             THEN checksLoop(system, attrs, i + 1, Append(dp, r.drvPath))
             ELSE checksLoop(system, attrs, i + 1, dp)

\* one round of the loop of the checks branch
checksAttr(system, v, dp) ==
    IF checkSystemName(system) # NoErr
    THEN [err |-> checkSystemName(system), drvPaths |-> dp]
    ELSE IF forceAttrs(v) # NoErr THEN [err |-> forceAttrs(v), drvPaths |-> dp]
    ELSE checksLoop(system, v.attrs, 1, dp)

\* a round of a loop over a system-keyed output draws a later key
NextKey(k) == k \in (kidx + 1)..Len(SystemKeys)

Checks ==
    \/ BeginAttrs("checks")
    \/ /\ InLoop("checks")
       /\ \E k \in 1..Len(SystemKeys), v \in DrvSets :
           /\ NextKey(k)
           /\ kidx' = k /\ attr' = [name |-> SystemKeys[k], value |-> v]
           /\ LET r == checksAttr(SystemKeys[k], v, drvPaths)
              IN  /\ Len(r.drvPaths) <= MaxDrvPaths
                  /\ drvPaths' = r.drvPaths
                  /\ Outcome("checks", r.err, "attr")
       /\ UNCHANGED <<walkVars, showVars, cmd, build, readOnlyMode, oidx, next, vOutput, frames,
                      warnings, built>>
    \/ EndAttrs("checks")

\* the loop of the packages branch over attr2, from attrs[i] on
RECURSIVE packagesLoop(_, _, _)
packagesLoop(system, attrs, i) ==
    IF i > Len(attrs) THEN NoErr
    ELSE LET r == checkDerivation("packages." \o system \o "." \o AttrName(i), attrs[i])
         IN  IF r.err # NoErr THEN r.err ELSE packagesLoop(system, attrs, i + 1)

packagesAttr(system, v) ==
    IF checkSystemName(system) # NoErr THEN checkSystemName(system)
    ELSE IF forceAttrs(v) # NoErr THEN forceAttrs(v)
    ELSE packagesLoop(system, v.attrs, 1)

Packages ==
    \/ BeginAttrs("packages")
    \/ /\ InLoop("packages")
       /\ \E k \in 1..Len(SystemKeys), v \in DrvSets :
           /\ NextKey(k)
           /\ kidx' = k /\ attr' = [name |-> SystemKeys[k], value |-> v]
           /\ Outcome("packages", packagesAttr(SystemKeys[k], v), "attr")
       /\ UNCHANGED <<walkVars, showVars, cmd, build, readOnlyMode, oidx, next, vOutput, frames,
                      drvPaths, warnings, built>>
    \/ EndAttrs("packages")

\* the loop of the apps branch over attr2, from attrs[i] on
RECURSIVE appsLoop(_, _, _, _)
appsLoop(system, attrs, i, dp) ==
    IF i > Len(attrs) THEN [err |-> NoErr, drvPaths |-> dp]
    ELSE LET r == checkApp("apps." \o system \o "." \o AttrName(i), attrs[i], dp)
         IN  IF r.err # NoErr THEN r
             ELSE appsLoop(system, attrs, i + 1, r.drvPaths)

\* a variant of appsAttr that keeps the artifacts of the current system only
appsAttrThisSystem(system, v, dp) ==
    IF checkSystemName(system) # NoErr
    THEN [err |-> checkSystemName(system), drvPaths |-> dp]
    ELSE IF forceAttrs(v) # NoErr THEN [err |-> forceAttrs(v), drvPaths |-> dp]
    ELSE IF system = thisSystem THEN appsLoop(system, v.attrs, 1, dp)
    ELSE [err |-> appsLoop(system, v.attrs, 1, dp).err, drvPaths |-> dp]

appsAttr(system, v, dp) ==
    IF checkSystemName(system) # NoErr
    THEN [err |-> checkSystemName(system), drvPaths |-> dp]
    ELSE IF forceAttrs(v) # NoErr THEN [err |-> forceAttrs(v), drvPaths |-> dp]
    ELSE appsLoop(system, v.attrs, 1, dp)

Apps ==
    \/ BeginAttrs("apps")
    \/ /\ InLoop("apps")
       /\ \E k \in 1..Len(SystemKeys), v \in AppSets :
           /\ NextKey(k)
           /\ kidx' = k /\ attr' = [name |-> SystemKeys[k], value |-> v]
           /\ LET r == appsAttr(SystemKeys[k], v, drvPaths)
              IN  /\ Len(r.drvPaths) <= MaxDrvPaths
                  /\ drvPaths' = r.drvPaths
                  /\ Outcome("apps", r.err, "attr")
       /\ UNCHANGED <<walkVars, showVars, cmd, build, readOnlyMode, oidx, next, vOutput, frames,
                      warnings, built>>
    \/ EndAttrs("apps")

\* one round of the loop of the defaultPackage and devShell branch
defaultPackageAttr(name, system, v) ==
    IF checkSystemName(system) # NoErr THEN checkSystemName(system)
    ELSE checkDerivation(name \o "." \o system, v).err

DefaultPackage ==
    \E n \in {"defaultPackage", "devShell"} :
        \/ BeginAttrs(n)
        \/ /\ InLoop(n)
           /\ \E k \in 1..Len(SystemKeys), v \in DrvLeaves :
               /\ NextKey(k)
               /\ kidx' = k /\ attr' = [name |-> SystemKeys[k], value |-> v]
               /\ Outcome(n, defaultPackageAttr(n, SystemKeys[k], v), "attr")
           /\ UNCHANGED <<walkVars, showVars, cmd, build, readOnlyMode, oidx, next, vOutput, frames,
                          drvPaths, warnings, built>>
        \/ EndAttrs(n)

\* one round of the loop of the defaultApp branch
defaultAppAttr(system, v, dp) ==
    IF checkSystemName(system) # NoErr
    THEN [err |-> checkSystemName(system), drvPaths |-> dp]
    ELSE checkApp("defaultApp." \o system, v, dp)

DefaultApp ==
    \/ BeginAttrs("defaultApp")
    \/ /\ InLoop("defaultApp")
       /\ \E k \in 1..Len(SystemKeys), v \in AppLeaves :
           /\ NextKey(k)
           /\ kidx' = k /\ attr' = [name |-> SystemKeys[k], value |-> v]
           /\ LET r == defaultAppAttr(SystemKeys[k], v, drvPaths)
              IN  /\ Len(r.drvPaths) <= MaxDrvPaths
                  /\ drvPaths' = r.drvPaths
                  /\ Outcome("defaultApp", r.err, "attr")
       /\ UNCHANGED <<walkVars, showVars, cmd, build, readOnlyMode, oidx, next, vOutput, frames,
                      warnings, built>>
    \/ EndAttrs("defaultApp")

\* one round of the loop of the legacyPackages branch: the value is not read
legacyPackagesAttr(system) == checkSystemName(system)

LegacyPackages ==
    \/ BeginAttrs("legacyPackages")
    \/ /\ InLoop("legacyPackages")
       /\ \E k \in 1..Len(SystemKeys), v \in {ThunkV, AttrsV(<<>>)} :
           /\ NextKey(k)
           /\ kidx' = k /\ attr' = [name |-> SystemKeys[k], value |-> v]
           /\ Outcome("legacyPackages", legacyPackagesAttr(SystemKeys[k]), "attr")
       /\ UNCHANGED <<walkVars, showVars, cmd, build, readOnlyMode, oidx, next, vOutput, frames,
                      drvPaths, warnings, built>>
    \/ EndAttrs("legacyPackages")

\* a round of a loop over an output whose keys are free names
NextName == kidx < MaxAttrs /\ kidx' = kidx + 1

Overlay ==
    /\ Enter("overlay")
    /\ \E v \in OverlayValues :
        /\ vOutput' = v
        /\ Outcome("overlay",
                   IF forceValue(v) # NoErr THEN forceValue(v)
                   ELSE checkOverlay("overlay", v),
                   "return")
    /\ UNCHANGED <<walkVars, showVars, cmd, build, readOnlyMode, attr, kidx, frames, drvPaths,
                   warnings, built>>

Overlays ==
    \/ BeginAttrs("overlays")
    \/ /\ InLoop("overlays")
       /\ NextName
       /\ \E v \in OverlayValues :
           /\ attr' = [name |-> AttrName(kidx'), value |-> v]
           /\ Outcome("overlays", checkOverlay("overlays." \o AttrName(kidx'), v), "attr")
       /\ UNCHANGED <<walkVars, showVars, cmd, build, readOnlyMode, oidx, next, vOutput, frames,
                      drvPaths, warnings, built>>
    \/ EndAttrs("overlays")

NixosModule ==
    /\ Enter("nixosModule")
    /\ \E v \in ModuleValues :
        /\ vOutput' = v
        /\ Outcome("nixosModule",
                   IF forceValue(v) # NoErr THEN forceValue(v)
                   ELSE checkModule("nixosModule", v),
                   "return")
    /\ UNCHANGED <<walkVars, showVars, cmd, build, readOnlyMode, attr, kidx, frames, drvPaths,
                   warnings, built>>

NixosModules ==
    \/ BeginAttrs("nixosModules")
    \/ /\ InLoop("nixosModules")
       /\ NextName
       /\ \E v \in ModuleValues :
           /\ attr' = [name |-> AttrName(kidx'), value |-> v]
           /\ Outcome("nixosModules", checkModule("nixosModules." \o AttrName(kidx'), v), "attr")
       /\ UNCHANGED <<walkVars, showVars, cmd, build, readOnlyMode, oidx, next, vOutput, frames,
                      drvPaths, warnings, built>>
    \/ EndAttrs("nixosModules")

NixosConfigurations ==
    \/ BeginAttrs("nixosConfigurations")
    \/ /\ InLoop("nixosConfigurations")
       /\ NextName
       /\ \E v \in ConfigValues :
           /\ attr' = [name |-> AttrName(kidx'), value |-> v]
           /\ Outcome("nixosConfigurations",
                      checkNixOSConfiguration("nixosConfigurations." \o AttrName(kidx'), v),
                      "attr")
       /\ UNCHANGED <<walkVars, showVars, cmd, build, readOnlyMode, oidx, next, vOutput, frames,
                      drvPaths, warnings, built>>
    \/ EndAttrs("nixosConfigurations")

\* The call checkHydraJobs(attrPath, v) up to its loop, below the calls frs:
\* an error of its head passes its own catch and those of the calls below.
hydraCall(attrPath, v, frs) ==
    IF hydraJobsHead(v) # NoErr
    THEN [err |-> hydraUnwind(hydraJobsHead(v), Append(frs, [path |-> attrPath, n |-> 0])),
          frames |-> frs]
    ELSE [err |-> NoErr, frames |-> Append(frs, [path |-> attrPath, n |-> 0])]

\* a variant of hydraAttr that calls checkHydraJobs on derivations too
hydraAttrEvery(v, frs) ==
    LET top == frs[Len(frs)]
        name == AttrName(top.n + 1)
        visited == [frs EXCEPT ![Len(frs)].n = top.n + 1]
    IN  IF forceAttrs(v) # NoErr
        THEN [err |-> hydraUnwind(forceAttrs(v), frs), frames |-> frs]
        ELSE hydraCall(top.path \o "." \o name, v, visited)

\* One round of the loop of the innermost checkHydraJobs call: the attribute
\* is forced, and a set that is no derivation is checked by a nested call.
hydraAttr(v, frs) ==
    LET top == frs[Len(frs)]
        name == AttrName(top.n + 1)
        visited == [frs EXCEPT ![Len(frs)].n = top.n + 1]
    IN  IF forceAttrs(v) # NoErr
        THEN [err |-> hydraUnwind(forceAttrs(v), frs), frames |-> frs]
        ELSE IF ~isDerivation(v)
        THEN hydraCall(top.path \o "." \o name, v, visited)
        ELSE [err |-> NoErr, frames |-> visited]

HydraJobs ==
    \/ /\ Enter("hydraJobs")
       /\ \E v \in JobValues :
           /\ vOutput' = v
           /\ LET r == IF forceValue(v) # NoErr
                       THEN [err |-> forceValue(v), frames |-> <<>>]
                       ELSE hydraCall("hydraJobs", v, <<>>)
              IN  frames' = r.frames /\ Outcome("hydraJobs", r.err, "hydra")
       /\ UNCHANGED <<walkVars, showVars, cmd, build, readOnlyMode, attr, kidx, drvPaths, warnings, built>>
    \/ /\ cmd = "check" /\ pc = "hydra"
       /\ frames[Len(frames)].n < MaxAttrs
       /\ \E v \in JobValues :
           /\ Len(frames) = MaxDepth => (forceAttrs(v) # NoErr \/ isDerivation(v))
           /\ attr' = [name |-> AttrName(frames[Len(frames)].n + 1), value |-> v]
           /\ LET r == hydraAttr(v, frames)
              IN  frames' = r.frames /\ Outcome("hydraJobs", r.err, "hydra")
       /\ UNCHANGED <<walkVars, showVars, cmd, build, readOnlyMode, oidx, next, vOutput, kidx,
                      drvPaths, warnings, built>>
    \/ \* the innermost call is at the end of its attributes and returns
       /\ cmd = "check" /\ pc = "hydra"
       /\ frames' = SubSeq(frames, 1, Len(frames) - 1)
       /\ pc' = IF frames' = <<>> THEN "return" ELSE "hydra"
       /\ UNCHANGED <<walkVars, showVars, cmd, build, readOnlyMode, oidx, next, vOutput, attr, kidx,
                      drvPaths, err, warnings, built>>

\* a variant of UnknownOutput that throws where the code warns
UnknownOutputFatal ==
    /\ \E n \in {"lib"} : Enter(n)
    /\ \E v \in {StringV, ThunkV, AttrsV(<<>>)} :
        /\ vOutput' = v
        /\ Outcome(OutputNames[oidx'],
                   IF forceValue(v) # NoErr THEN forceValue(v)
                   ELSE Error("unknown flake output", OutputNames[oidx']),
                   "return")
        /\ warnings' = warnings
    /\ UNCHANGED <<walkVars, showVars, cmd, build, readOnlyMode, attr, kidx, frames, drvPaths, built>>

\* the else branch: an output no branch knows
UnknownOutput ==
    /\ \E n \in {"lib"} : Enter(n)
    /\ \E v \in {StringV, ThunkV, AttrsV(<<>>)} :
        /\ vOutput' = v
        /\ IF forceValue(v) # NoErr
           THEN Outcome(OutputNames[oidx'], forceValue(v), "return") /\ warnings' = warnings
           ELSE /\ warnings' = Append(warnings, OutputNames[oidx'])
                /\ Outcome(OutputNames[oidx'], NoErr, "return")
    /\ UNCHANGED <<walkVars, showVars, cmd, build, readOnlyMode, attr, kidx, frames, drvPaths, built>>

\* a variant of Build that does not read the build flag
BuildWithoutFlag ==
    /\ cmd = "check" /\ pc = "outputs" /\ next = 0
    /\ IF drvPaths # <<>>
       THEN built' = Append(built, drvPaths) /\ pc' = "done" /\ err' = err
       ELSE built' = built /\ pc' = "done" /\ err' = err
    /\ UNCHANGED <<walkVars, showVars, cmd, build, readOnlyMode, oidx, next, vOutput, attr, kidx,
                   frames, drvPaths, warnings>>

\* enumerateOutputs has returned: the build of the collected derivations
Build ==
    /\ cmd = "check" /\ pc = "outputs" /\ next = 0
    /\ IF build /\ drvPaths # <<>>
       THEN /\ built' = Append(built, drvPaths)
            /\ \E ok \in BOOLEAN :
                IF ok THEN pc' = "done" /\ err' = err
                ELSE pc' = "failed" /\ err' = Error("build failed", "")
       ELSE built' = built /\ pc' = "done" /\ err' = err
    /\ UNCHANGED <<walkVars, showVars, cmd, build, readOnlyMode, oidx, next, vOutput, attr, kidx,
                   frames, drvPaths, warnings>>

------------------------------------------------------------------------------
(* The lock file: Node::inputs of every node.  Node 0 is the root; every   *)
(* other node is a LockedNode.  The file is acyclic: an input of a node is *)
(* a later node.                                                           *)

LockNodes == 0..MaxNode

\* the sequences without repetition over S
InjSeqs(S) ==
    {q \in SeqUpTo(S, Cardinality(S)) :
        \A i, j \in 1..Len(q) : i # j => q[i] # q[j]}
AllInputs == InjSeqs(1..MaxNode)

\* the inputs of each node, in the order in which they were added to it
LockFiles ==
    {l \in [LockNodes -> AllInputs] :
        \A n \in LockNodes : \A i \in 1..Len(l[n]) : l[n][i] > n}

\* lock files with one more input, of the last node: itself or an earlier
\* locked node; among them are those with a cycle
CyclicLockFiles ==
    {[l EXCEPT ![MaxNode] = Append(@, c)] : l \in LockFiles, c \in 1..MaxNode}

\* the name under which a node is an input, and its lockedRef
InputName(c) == "i" \o ToString(c)
lockedRef(c) == "ref" \o ToString(c)

\* Node::inputs of node, as the range-for of recurse and traverse meets it:
\* pairs of the input's name and the node
inputsOf(l, node) == [i \in 1..Len(l[node]) |-> <<InputName(l[node][i]), l[node][i]>>]

\* The store paths, in the order of StorePath.
StorePaths == <<"p0", "p1", "p2">>
Rank(p) == CHOOSE i \in 1..Len(StorePaths) : StorePaths[i] = p

\* flake.flake.sourceInfo->storePath
rootStorePath == "p0"
\* lockedInput->computeStorePath(*store): the path of the node's content;
\* two nodes locked to the same content have the same path
computeStorePath(c) ==
    IF c % 2 = 1 THEN "p1" ELSE "p2"

\* StorePathSet::insert: sources holds its paths once each, in order
RECURSIVE insert(_, _)
insert(set, p) ==
    IF set = <<>> THEN <<p>>
    ELSE IF Head(set) = p THEN set
    ELSE IF Rank(p) < Rank(Head(set)) THEN <<p>> \o set
    ELSE <<Head(set)>> \o insert(Tail(set), p)

\* what JSONObject writes: the opening of an object (under a key, but for
\* the root), an attribute, the closing of an object
JOpen(key) == [t |-> "{", key |-> key, value |-> ""]
JAttr(key, value) == [t |-> "attr", key |-> key, value |-> value]
JClose == [t |-> "}", key |-> "", value |-> ""]
IfJson(tokens) == IF json THEN tokens ELSE <<>>

------------------------------------------------------------------------------
(* nix flake archive *)

\* CmdFlakeArchive::run up to the loop of traverse(*flake.lockFile.root, jsonRoot)
Archive ==
    /\ cmd = "archive" /\ pc = "start"
    /\ sources' = insert(sources, rootStorePath)
    /\ out' = out \o IfJson(<<JOpen(""), JAttr("path", rootStorePath), JOpen("inputs")>>)
    /\ stack' = <<[node |-> 0, i |-> 1, prefix |-> <<>>]>>
    /\ pc' = "traverse"
    /\ UNCHANGED <<cmd, checkVars, showVars, lock, json, dryRun, dstUri, fetched, copied>>

\* a variant of traverseInput that collects the path of a node only when it
\* has fetched it
traverseInputFetched(l, frame, srcs, fetches) ==
    LET input == inputsOf(l, frame.node)[frame.i]
        lockedInput == input[2]
        storePath == computeStorePath(lockedInput)
    IN  [fetched |-> IF ~dryRun THEN Append(fetches, lockedInput) ELSE fetches,
         sources |-> IF ~dryRun THEN insert(srcs, storePath) ELSE srcs,
         out |-> IfJson(<<JOpen(input[1]), JAttr("path", storePath), JOpen("inputs")>>),
         call |-> [node |-> lockedInput, i |-> 1, prefix |-> <<>>]]

\* a variant of traverseInput that fetches a node only when sources does not
\* hold its path yet
traverseInputMemo(l, frame, srcs, fetches) ==
    LET input == inputsOf(l, frame.node)[frame.i]
        lockedInput == input[2]
        storePath == computeStorePath(lockedInput)
        seen == \E j \in 1..Len(srcs) : srcs[j] = storePath
    IN  [fetched |-> IF ~dryRun /\ ~seen THEN Append(fetches, lockedInput) ELSE fetches,
         sources |-> insert(srcs, storePath),
         out |-> IfJson(<<JOpen(input[1]), JAttr("path", storePath), JOpen("inputs")>>),
         call |-> [node |-> lockedInput, i |-> 1, prefix |-> <<>>]]

\* a variant of traverseInput that does not go into a node whose path
\* sources holds already
traverseInputVisited(l, frame, srcs, fetches) ==
    LET input == inputsOf(l, frame.node)[frame.i]
        lockedInput == input[2]
        storePath == computeStorePath(lockedInput)
        seen == \E j \in 1..Len(srcs) : srcs[j] = storePath
    IN  [fetched |-> IF ~dryRun THEN Append(fetches, lockedInput) ELSE fetches,
         sources |-> insert(srcs, storePath),
         out |-> IfJson(<<JOpen(input[1]), JAttr("path", storePath), JOpen("inputs")>>),
         call |-> [node |-> lockedInput,
                   i |-> IF seen THEN Len(inputsOf(l, lockedInput)) + 1 ELSE 1,
                   prefix |-> <<>>]]

\* a variant of traverseInput that appends to sources as to a list
traverseInputAppend(l, frame, srcs, fetches) ==
    LET input == inputsOf(l, frame.node)[frame.i]
        lockedInput == input[2]
        storePath == computeStorePath(lockedInput)
    IN  [fetched |-> IF ~dryRun THEN Append(fetches, lockedInput) ELSE fetches,
         sources |-> Append(srcs, storePath),
         out |-> IfJson(<<JOpen(input[1]), JAttr("path", storePath), JOpen("inputs")>>),
         call |-> [node |-> lockedInput, i |-> 1, prefix |-> <<>>]]

\* One round of the loop of traverse, up to the loop of the nested call:
\* what it does to sources, fetched and out for the input at frame.i.
traverseInput(l, frame, srcs, fetches) ==
    LET input == inputsOf(l, frame.node)[frame.i]
        lockedInput == input[2]
        storePath == computeStorePath(lockedInput)
    IN  [fetched |-> IF ~dryRun THEN Append(fetches, lockedInput) ELSE fetches,
         sources |-> insert(srcs, storePath),
         out |-> IfJson(<<JOpen(input[1]), JAttr("path", storePath), JOpen("inputs")>>),
         call |-> [node |-> lockedInput, i |-> 1, prefix |-> <<>>]]

Traverse ==
    /\ cmd = "archive" /\ pc = "traverse"
    /\ LET frame == stack[Len(stack)]
       IN  \/ /\ frame.i <= Len(inputsOf(lock, frame.node))
              /\ Len(stack) < MaxStack
              /\ LET r == traverseInput(lock, frame, sources, fetched)
                 IN  /\ fetched' = r.fetched
                     /\ sources' = r.sources
                     /\ out' = out \o r.out
                     /\ stack' = Append([stack EXCEPT ![Len(stack)].i = frame.i + 1], r.call)
              /\ pc' = pc
           \/ \* the call is at the end of node.inputs and returns: jsonObj2
              \* closes, and then the caller's jsonObj3
              /\ frame.i > Len(inputsOf(lock, frame.node))
              /\ stack' = SubSeq(stack, 1, Len(stack) - 1)
              /\ out' = out \o IfJson(IF Len(stack) > 1 THEN <<JClose, JClose>> ELSE <<JClose>>)
              /\ pc' = IF Len(stack) > 1 THEN "traverse" ELSE "copy"
              /\ UNCHANGED <<fetched, sources>>
    /\ UNCHANGED <<cmd, checkVars, showVars, lock, json, dryRun, dstUri, copied>>

\* the copy to the destination store, and the end of run
Copy ==
    /\ cmd = "archive" /\ pc = "copy"
    /\ copied' = IF ~dryRun /\ dstUri # ""
                 THEN Append(copied, [dstUri |-> dstUri, paths |-> sources])
                 ELSE copied
    /\ out' = out \o IfJson(<<JClose>>)
    /\ pc' = "done"
    /\ UNCHANGED <<cmd, checkVars, showVars, lock, json, dryRun, dstUri, stack, sources, fetched>>

------------------------------------------------------------------------------
(* nix flake list-inputs *)

\* a line of the tree: its prefix, the input's name, the lockedRef
Line(prefix, name, ref) == [t |-> "line", key |-> name, value |-> ref, prefix |-> prefix]

\* CmdFlakeListInputs::run up to the loop of recurse(*flake.lockFile.root, "")
ListInputs ==
    /\ cmd = "list-inputs" /\ pc = "start"
    /\ IF json
       THEN /\ out' = Append(out, [t |-> "lockFile.toJson()", key |-> "", value |-> ""])
            /\ stack' = stack
            /\ pc' = "done"
       ELSE /\ out' = Append(out, Line(<<>>, "", "flake.lockedRef"))
            /\ stack' = <<[node |-> 0, i |-> 1, prefix |-> <<>>]>>
            /\ pc' = "recurse"
    /\ UNCHANGED <<cmd, checkVars, showVars, lock, json, dryRun, dstUri, sources, fetched, copied>>

\* a variant of recurseInput that goes through node.inputs from its end
recurseInputReversed(l, frame) ==
    LET n == Len(inputsOf(l, frame.node))
        input == inputsOf(l, frame.node)[n + 1 - frame.i]
        last == frame.i = n
    IN  [out |-> Line(Append(frame.prefix, IF last THEN "treeLast" ELSE "treeConn"),
                      input[1], lockedRef(input[2])),
         call |-> [node |-> input[2], i |-> 1,
                   prefix |-> Append(frame.prefix, IF last THEN "treeNull" ELSE "treeLine")]]

\* One round of the loop of recurse, up to the loop of the nested call: the
\* line it prints and the call it makes.
recurseInput(l, frame) ==
    LET input == inputsOf(l, frame.node)[frame.i]
        last == frame.i = Len(inputsOf(l, frame.node))
    IN  [out |-> Line(Append(frame.prefix, IF last THEN "treeLast" ELSE "treeConn"),
                      input[1], lockedRef(input[2])),
         call |-> [node |-> input[2], i |-> 1,
                   prefix |-> Append(frame.prefix, IF last THEN "treeNull" ELSE "treeLine")]]

Recurse ==
    /\ cmd = "list-inputs" /\ pc = "recurse"
    /\ LET frame == stack[Len(stack)]
       IN  \/ /\ frame.i <= Len(inputsOf(lock, frame.node))
              /\ Len(stack) < MaxStack
              /\ LET r == recurseInput(lock, frame)
                 IN  /\ out' = Append(out, r.out)
                     /\ stack' = Append([stack EXCEPT ![Len(stack)].i = frame.i + 1], r.call)
              /\ pc' = pc
           \/ /\ frame.i > Len(inputsOf(lock, frame.node))
              /\ stack' = SubSeq(stack, 1, Len(stack) - 1)
              /\ out' = out
              /\ pc' = IF Len(stack) > 1 THEN "recurse" ELSE "done"
    /\ UNCHANGED <<cmd, checkVars, showVars, lock, json, dryRun, dstUri, sources, fetched, copied>>

------------------------------------------------------------------------------

(* nix flake show *)

\* the attributes of the root that visit tells apart, in the order of
\* getAttrs; lib stands for a name no branch knows
ShowNames ==
    <<"apps", "checks", "defaultApp", "defaultPackage", "devShell", "hydraJobs",
      "legacyPackages", "lib", "nixosConfigurations", "nixosModules", "overlay",
      "packages">>

\* what an attribute can be
ShowValues == {DrvV("d1.drv"), AttrsV(<<>>), AppV({}), StringV, ThunkV}

\* AttrCursor::getAttrs, isDerivation and maybeGetAttr("type"): each forces
\* the value, and throws the EvalError of a value that fails to evaluate
getAttrs(v) == forceAttrs(v)
visitorIsDerivation(v) ==
    [err |-> forceValue(v), value |-> v.type = "tAttrs" /\ v.drv]
visitorIsApp(v) ==
    [err |-> forceValue(v), value |-> v.type = "tAttrs" /\ v.app]

\* the errors that are EvalErrors; Error("expected a derivation") is none
IsEvalError(e) ==
    e.msg \in {"evaluation error", "value is not a set", "not an app definition"}

\* a variant of visitCatch that swallows the EvalError at every node
visitCatchEverywhere(attrPath, e) == IsEvalError(e)

\* the catch of visit: TRUE when the error ends there, FALSE when it is
\* thrown on
visitCatch(attrPath, e) ==
    IsEvalError(e) /\ Len(attrPath) > 0 /\ attrPath[1] = "legacyPackages"

\* the try block of visit(visitor, attrPath, ...) up to the loop of
\* recurse(): what it writes, what it throws, and whether it is in recurse()
visit(attrPath, v) ==
    LET size == Len(attrPath)
        top == IF size > 0 THEN attrPath[1] ELSE ""
        throw(e) == [shown |-> <<>>, err |-> e, recurse |-> FALSE]
        stdout(t) == [shown |-> <<t>>, err |-> NoErr, recurse |-> FALSE]
        recurse == [shown |-> <<"header">>, err |-> getAttrs(v),
                    recurse |-> getAttrs(v) = NoErr]
        showDerivation ==
            stdout(IF size = 2 /\ top = "devShell" THEN "development environment"
                   ELSE IF size = 3 /\ top = "checks" THEN "derivation"
                   ELSE IF size >= 1 /\ top = "hydraJobs" THEN "derivation"
                   ELSE "package")
        drv == visitorIsDerivation(v)
    IN  IF \/ size = 0
           \/ size = 1 /\ top \in {"defaultPackage", "devShell", "nixosConfigurations",
                                   "nixosModules", "defaultApp"}
           \/ size \in {1, 2} /\ top \in {"checks", "packages", "apps"}
        THEN recurse
        ELSE IF \/ size = 2 /\ top \in {"defaultPackage", "devShell"}
                \/ size = 3 /\ top \in {"checks", "packages"}
        THEN IF drv.err # NoErr THEN throw(drv.err)
             ELSE IF drv.value THEN showDerivation
             ELSE throw(Error("expected a derivation", ""))
        ELSE IF size > 0 /\ top = "hydraJobs"
        THEN IF drv.err # NoErr THEN throw(drv.err)
             ELSE IF drv.value THEN showDerivation
             ELSE recurse
        ELSE IF size > 0 /\ top = "legacyPackages"
        THEN IF size = 1 THEN recurse
             ELSE IF ~showLegacy THEN stdout("omitted")
             ELSE IF drv.err # NoErr THEN throw(drv.err)
             ELSE IF drv.value THEN showDerivation
             ELSE IF size <= 2 THEN recurse
             ELSE [shown |-> <<>>, err |-> NoErr, recurse |-> FALSE]
        ELSE IF \/ size = 2 /\ top = "defaultApp"
                \/ size = 3 /\ top = "apps"
        THEN IF visitorIsApp(v).err # NoErr THEN throw(visitorIsApp(v).err)
             ELSE IF ~visitorIsApp(v).value THEN throw(Error("not an app definition", ""))
             ELSE stdout("app")
        ELSE stdout(IF size = 1 /\ top = "overlay" THEN "Nixpkgs overlay"
                    ELSE IF size = 2 /\ top = "nixosConfigurations" THEN "NixOS configuration"
                    ELSE IF size = 2 /\ top = "nixosModules" THEN "NixOS module"
                    ELSE "unknown")

\* An error leaves the calls of visit frs, innermost first: the number of
\* calls that are left when a catch ends it, -1 when none does.
RECURSIVE showUnwind(_, _)
showUnwind(frs, e) ==
    IF frs = <<>> THEN -1
    ELSE IF visitCatch(frs[Len(frs)].attrPath, e) THEN Len(frs) - 1
    ELSE showUnwind(SubSeq(frs, 1, Len(frs) - 1), e)

\* CmdFlakeShow::run up to the loop of recurse() of visit(*cache->getRoot(), {})
Show ==
    /\ cmd = "show" /\ pc = "start"
    /\ visitor' = [attrPath |-> <<>>, value |-> AttrsV(<<>>)]
    /\ shown' = visit(<<>>, AttrsV(<<>>)).shown
    /\ visits' = <<[attrPath |-> <<>>, i |-> 0]>>
    /\ pc' = "visit"
    /\ UNCHANGED <<cmd, checkVars, walkVars, showLegacy>>

\* One round of the loop of recurse() of the innermost call in recurse():
\* visit is called for the next attribute, up to the loop of its recurse().
Visit ==
    /\ cmd = "show" /\ pc = "visit"
    /\ LET frame == visits[Len(visits)]
       IN  \E i \in 1..Len(ShowNames), v \in ShowValues :
            /\ IF frame.attrPath = <<>> THEN i > frame.i
               ELSE i = frame.i + 1 /\ i <= MaxAttrs
            /\ LET attr2 == IF frame.attrPath = <<>> THEN ShowNames[i] ELSE AttrName(i)
                   attrPath2 == Append(frame.attrPath, attr2)
                   r == visit(attrPath2, v)
                   calls == [visits EXCEPT ![Len(visits)].i = i]
                   left == IF visitCatch(attrPath2, r.err) THEN Len(calls)
                           ELSE showUnwind(calls, r.err)
               IN  /\ Len(visits) > MaxDepth => ~r.recurse
                   /\ visitor' = [attrPath |-> attrPath2, value |-> v]
                   /\ shown' = r.shown
                   /\ IF r.err = NoErr
                      THEN /\ visits' = IF r.recurse
                                        THEN Append(calls, [attrPath |-> attrPath2, i |-> 0])
                                        ELSE calls
                           /\ pc' = pc /\ err' = err
                      ELSE IF left >= 1
                      THEN visits' = SubSeq(calls, 1, left) /\ pc' = pc /\ err' = err
                      ELSE visits' = <<>> /\ pc' = "failed" /\ err' = r.err
    /\ UNCHANGED <<cmd, walkVars, showLegacy, build, readOnlyMode, oidx, next, vOutput,
                   attr, kidx, frames, drvPaths, warnings, built>>

\* the loop of recurse() of the innermost call is at the end of the
\* attributes: visit returns, the outermost to run
VisitReturn ==
    /\ cmd = "show" /\ pc = "visit"
    /\ visits' = SubSeq(visits, 1, Len(visits) - 1)
    /\ pc' = IF Len(visits) > 1 THEN "visit" ELSE "done"
    /\ shown' = <<>>
    /\ UNCHANGED <<cmd, checkVars, walkVars, showLegacy, visitor>>

InitShow ==
    /\ cmd = "show" /\ pc = "start"
    /\ showLegacy \in BOOLEAN
    /\ visits = <<>> /\ visitor = [attrPath |-> <<>>, value |-> NoValue] /\ shown = <<>>
    /\ lock = [n \in LockNodes |-> <<>>] /\ json = FALSE /\ dryRun = FALSE /\ dstUri = ""
    /\ stack = <<>> /\ sources = <<>> /\ fetched = <<>> /\ copied = <<>> /\ out = <<>>
    /\ build = TRUE /\ readOnlyMode = FALSE /\ oidx = 0 /\ next = 0
    /\ vOutput = NoValue /\ attr = NoAttr /\ kidx = 0
    /\ frames = <<>> /\ drvPaths = <<>> /\ err = NoErr
    /\ warnings = <<>> /\ built = <<>>

------------------------------------------------------------------------------

NoLock == [n \in LockNodes |-> <<>>]
NoVisitor == [attrPath |-> <<>>, value |-> NoValue]
NoShow == showLegacy = FALSE /\ visits = <<>> /\ visitor = NoVisitor /\ shown = <<>>

InitCheck ==
    /\ lock = NoLock /\ json = FALSE /\ dryRun = FALSE /\ dstUri = ""
    /\ stack = <<>> /\ sources = <<>> /\ fetched = <<>> /\ copied = <<>> /\ out = <<>>
    /\ cmd = "check" /\ pc = "start"
    /\ NoShow
    /\ build \in BOOLEAN
    /\ readOnlyMode = FALSE
    /\ oidx = 0
    /\ next \in 0..Len(OutputNames)
    /\ vOutput = NoValue /\ attr = NoAttr /\ kidx = 0
    /\ frames = <<>> /\ drvPaths = <<>> /\ err = NoErr
    /\ warnings = <<>> /\ built = <<>>

InitWalk ==
    /\ cmd \in {"archive", "list-inputs"} /\ pc = "start"
    /\ NoShow
    /\ lock \in LockFiles \cup CyclicLockFiles
    /\ json \in BOOLEAN
    /\ dryRun \in IF cmd = "archive" THEN BOOLEAN ELSE {FALSE}
    /\ dstUri \in IF cmd = "archive" THEN {"", "file:///cache"} ELSE {""}
    /\ stack = <<>> /\ sources = <<>> /\ fetched = <<>> /\ copied = <<>> /\ out = <<>>
    /\ build = TRUE /\ readOnlyMode = FALSE /\ oidx = 0 /\ next = 0
    /\ vOutput = NoValue /\ attr = NoAttr /\ kidx = 0
    /\ frames = <<>> /\ drvPaths = <<>> /\ err = NoErr
    /\ warnings = <<>> /\ built = <<>>

Init == InitCheck \/ InitWalk \/ InitShow

Next ==
    \/ Run
    \/ Checks \/ Packages \/ Apps \/ DefaultPackage \/ DefaultApp \/ LegacyPackages
    \/ Overlay \/ Overlays \/ NixosModule \/ NixosModules \/ NixosConfigurations
    \/ HydraJobs \/ UnknownOutput
    \/ Continue \/ Return
    \/ Build
    \/ Archive \/ Traverse \/ Copy
    \/ ListInputs \/ Recurse
    \/ Show \/ Visit \/ VisitReturn

Spec == Init /\ [][Next]_vars

\* The commands that walk the lock file.  run and its lambdas are
\* sequential code: a step that can be taken is taken.
WalkNext == Archive \/ Traverse \/ Copy \/ ListInputs \/ Recurse
WalkSpec == InitWalk /\ [][WalkNext]_vars /\ WF_vars(WalkNext)

------------------------------------------------------------------------------
(* Properties. *)

\* the output the callback is, or was last, called with
outputName == IF oidx = 0 THEN "" ELSE OutputNames[oidx]

\* the callback for the output named n is about to be called
Calling(n) == cmd = "check" /\ pc = "outputs" /\ next # 0 /\ OutputNames[next] = n

\* the body of a first-level loop of the callback has just run on attr
AfterBody == cmd = "check" /\ pc \in {"attr", "failed"} /\ attr # NoAttr

\* the outputs whose first-level keys are systems
SystemOutputs ==
    {"packages", "apps", "checks", "defaultPackage", "devShell", "defaultApp",
     "legacyPackages"}

HasHyphen(k) == \E i \in 1..Len(Chars(k)) : Chars(k)[i] = "-"

\* C1: in each of packages, apps, checks, defaultPackage, devShell,
\* defaultApp and legacyPackages, a first-level key the validation comes to
\* ends it with the fatal error 'is not a valid system type' for that key
\* when the key holds no hyphen, and passes the system-name check when it
\* holds one.
C1_SystemName ==
    (AfterBody /\ outputName \in SystemOutputs) =>
        IF HasHyphen(attr.name)
        THEN err.msg # "is not a valid system type"
        ELSE /\ pc = "failed"
             /\ err.msg = "is not a valid system type"
             /\ err.arg = attr.name

\* legacyPackages.foo has ended the validation
C1_Witness ==
    /\ AfterBody /\ outputName = "legacyPackages"
    /\ attr.name = "foo" /\ pc = "failed"
    /\ err.msg = "is not a valid system type"

\* the derivations an attribute set starts with: the entries before the
\* first one that is no derivation
RECURSIVE LeadingDrvs(_)
LeadingDrvs(as) ==
    IF as = <<>> \/ ~isDerivation(Head(as)) THEN <<>>
    ELSE <<Head(as).drvPath>> \o LeadingDrvs(Tail(as))

\* a round of the loop of the checks branch, over a hyphenated system
ChecksRound ==
    /\ cmd = "check" /\ pc = "loop" /\ outputName = "checks" /\ pc' # "return"
    /\ HasHyphen(attr'.name) /\ attr'.value.type = "tAttrs"

\* C2: every entry checks.<sys>.<name> that is a derivation and that the
\* validation comes to adds exactly one artifact, its own, when <sys> is the
\* current system and none when <sys> is another system; such an entry
\* raises no error: the round fails only at an entry that is no derivation.
C2_ChecksArtifacts ==
    [][ChecksRound =>
        LET entries == attr'.value.attrs
            drvs == LeadingDrvs(entries)
        IN  /\ drvPaths' = IF attr'.name = thisSystem THEN drvPaths \o drvs ELSE drvPaths
            /\ IF Len(drvs) = Len(entries)
               THEN pc' = "attr" /\ err' = NoErr
               ELSE /\ pc' = "failed"
                    /\ err'.prefix[Len(err'.prefix)].path
                         = "checks." \o attr'.name \o "." \o AttrName(Len(drvs) + 1)
       ]_vars

\* the derivation of checks.<current system>.n1 has been collected
C2_Witness ==
    /\ AfterBody /\ outputName = "checks" /\ pc = "attr"
    /\ attr.value.type = "tAttrs" /\ Len(attr.value.attrs) = 1
    /\ attr.name = thisSystem /\ drvPaths = <<attr.value.attrs[1].drvPath>>

\* C3, as claimed: a run that has ended with the error of one output has
\* attempted every other output.
C3_SiblingsAttempted ==
    (cmd = "check" /\ pc = "failed" /\ err.msg # "build failed") => next = 0

\* C3, amended: an error raised while an output is validated ends the run at
\* once: the run takes no further step, so neither the rest of that output
\* nor any other output is validated and nothing is built, and the error
\* carries the prefix of the output it was raised in.
C3_FailFast ==
    /\ [](cmd = "check" /\ err # NoErr => pc = "failed")
    /\ [](cmd = "check" /\ pc = "failed" /\ err.msg # "build failed" =>
            /\ built = <<>>
            /\ err.prefix[1] = [what |-> "while checking flake output", path |-> outputName])
    /\ [][pc # "failed"]_vars

\* an output has failed while an other output is still to be visited
C3_Witness ==
    /\ cmd = "check" /\ pc = "failed" /\ next # 0
    /\ err.prefix[1].what = "while checking flake output"

\* C4: the build is requested at most once, and only after every output has
\* been validated without error, with build set and drvPaths not empty;
\* without build nothing is built and the store is read-only all through
\* the validation.
C4_BuildOnce ==
    /\ Len(built) <= 1
    /\ built # <<>> =>
        /\ build /\ drvPaths # <<>> /\ built[1] = drvPaths
        /\ next = 0 /\ pc \in {"done", "failed"}
        /\ err \in {NoErr, Error("build failed", "")}
    /\ ~build => built = <<>>
    /\ (cmd = "check" /\ pc # "start") => readOnlyMode = ~build

\* a build was requested, after an output no branch knows was warned about
C4_Witness ==
    /\ cmd = "check" /\ pc = "done" /\ Len(built) = 1 /\ warnings # <<>>

\* without build the validation has come to its end in read-only mode
C4_WitnessNoBuild ==
    /\ cmd = "check" /\ pc = "done" /\ ~build /\ drvPaths # <<>> /\ readOnlyMode

\* how often x occurs in the sequence q
Count(q, x) == Cardinality({i \in 1..Len(q) : q[i] = x})

\* the inputs of node m in l, as a set
Kids(l, m) == {l[m][i] : i \in 1..Len(l[m])}

\* the nodes of l the root reaches
RECURSIVE Reachable(_, _, _)
Reachable(l, S, n) ==
    IF n = 0 THEN S
    ELSE Reachable(l, S \cup UNION {Kids(l, m) : m \in S}, n - 1)

Locked(l) == Reachable(l, {0}, MaxNode) \ {0}

\* C5: after the traversal of flake archive, sources holds the store path
\* of every locked node the root reaches exactly once, also of a node that
\* is an input of two nodes; sources never holds a path twice.
C5_SharedChildOnce ==
    cmd = "archive" =>
        /\ \A p \in {StorePaths[i] : i \in 1..Len(StorePaths)} : Count(sources, p) <= 1
        /\ pc \in {"copy", "done"} =>
            \A c \in Locked(lock) : Count(sources, computeStorePath(c)) = 1

\* the traversal of a lock file in which a node is an input of the root and
\* of an other node has ended
C5_Witness ==
    /\ cmd = "archive" /\ pc = "done"
    /\ \E c \in Locked(lock) :
        /\ c \in Kids(lock, 0)
        /\ \E m \in Locked(lock) : c \in Kids(lock, m)
        /\ Count(sources, computeStorePath(c)) = 1

\* C6, as claimed: no artifact occurs twice in what is handed to the builder.
C6_NoRepetition ==
    \A k \in 1..Len(built) : \A d \in DrvPathNames : Count(built[k], d) <= 1

\* what checkApp adds of d for an app with this context
ContextAdds(context, d) ==
    Cardinality({i \in 1..Len(CtxRefs) :
        CtxRefs[i] \in context /\ CtxRefs[i].output # "" /\ CtxRefs[i].path = d})

IsApp(v) == v.type = "tAttrs" /\ v.app

\* what the apps before the first entry that is no app add of d
RECURSIVE AppsAdd(_, _)
AppsAdd(as, d) ==
    IF as = <<>> \/ ~IsApp(Head(as)) THEN 0
    ELSE ContextAdds(Head(as).context, d) + AppsAdd(Tail(as), d)

\* how often a step reaches the derivation d as an artifact
ReachedBy(d) ==
    IF cmd = "check" /\ pc = "loop" /\ pc' # "return"
       /\ outputName \in SystemOutputs /\ HasHyphen(attr'.name)
    THEN CASE outputName = "checks" /\ attr'.name = thisSystem /\ attr'.value.type = "tAttrs"
                -> Count(LeadingDrvs(attr'.value.attrs), d)
           [] outputName = "apps" /\ attr'.value.type = "tAttrs"
                -> AppsAdd(attr'.value.attrs, d)
           [] outputName = "defaultApp" /\ IsApp(attr'.value)
                -> ContextAdds(attr'.value.context, d)
           [] OTHER -> 0
    ELSE 0

\* C6, amended: the collection is a list: every step adds an artifact to it
\* once for each time it reaches it (a derivation of checks.<current system>,
\* a context reference of an app to an output of a derivation), whether or
\* not the list holds it already, and the builder is handed the list as it is.
C6_OncePerReach ==
    /\ [](built # <<>> => built[1] = drvPaths)
    /\ [][\A d \in DrvPathNames : Count(drvPaths', d) = Count(drvPaths, d) + ReachedBy(d)]_vars

\* the builder was handed a list that holds an artifact twice
C6_Witness ==
    /\ cmd = "check" /\ pc = "done" /\ built # <<>>
    /\ \E d \in DrvPathNames : Count(built[1], d) = 2

\* the inputs under node, input i on, and under each of them what it
\* reaches, in the order in which they were added: pairs of depth and name
RECURSIVE PreOrder(_, _, _, _)
PreOrder(l, node, i, depth) ==
    IF i > Len(l[node]) THEN <<>>
    ELSE <<<<depth, InputName(l[node][i])>>>>
         \o PreOrder(l, l[node][i], 1, depth + 1)
         \o PreOrder(l, node, i + 1, depth)

\* the lines of the tree that list-inputs printed: depth and name
RECURSIVE PrintVisits(_)
PrintVisits(o) ==
    IF o = <<>> THEN <<>>
    ELSE IF Head(o).t = "line" /\ Head(o).key # ""
    THEN <<<<Len(Head(o).prefix), Head(o).key>>>> \o PrintVisits(Tail(o))
    ELSE PrintVisits(Tail(o))

\* the objects of the inputs in the JSON of archive, in the order in which
\* they were opened: depth and name; opens holds the keys of the open objects
RECURSIVE JsonVisits(_, _)
JsonVisits(o, opens) ==
    IF o = <<>> THEN <<>>
    ELSE IF Head(o).t = "{"
    THEN (IF Head(o).key \notin {"", "inputs"}
          THEN <<<<Count(opens, "inputs"), Head(o).key>>>>
          ELSE <<>>)
         \o JsonVisits(Tail(o), Append(opens, Head(o).key))
    ELSE IF Head(o).t = "}"
    THEN JsonVisits(Tail(o), SubSeq(opens, 1, Len(opens) - 1))
    ELSE JsonVisits(Tail(o), opens)

\* C7: the tree that list-inputs prints and the JSON that archive writes
\* name the inputs of the same lock file in the same order: at every node
\* its inputs in the order in which they were added, each before what is
\* under it.
C7_SameOrder ==
    pc = "done" =>
        /\ (cmd = "list-inputs" /\ ~json) => PrintVisits(out) = PreOrder(lock, 0, 1, 1)
        /\ (cmd = "archive" /\ json) => JsonVisits(out, <<>>) = PreOrder(lock, 0, 1, 1)

\* archive has written the JSON of a lock file whose root has the inputs i2
\* and i1, added in this order, with i2 also under i1
C7_Witness ==
    /\ cmd = "archive" /\ json /\ pc = "done"
    /\ lock[0] = <<2, 1>> /\ lock[1] = <<2>>
    /\ JsonVisits(out, <<>>) = <<<<1, "i2">>, <<1, "i1">>, <<2, "i2">>>>

\* the names a branch of the callback knows
KnownOutputs ==
    {"checks", "packages", "apps", "defaultPackage", "devShell", "defaultApp",
     "legacyPackages", "overlay", "overlays", "nixosModule", "nixosModules",
     "nixosConfigurations", "hydraJobs"}

\* the callback has just run for an output no branch knows
AfterUnknown ==
    /\ cmd = "check" /\ oidx # 0 /\ outputName \notin KnownOutputs
    /\ vOutput # NoValue /\ pc \in {"return", "failed"}

\* C8, as claimed: an output no branch knows raises no error.
C8_NoError == AfterUnknown => (pc = "return" /\ err = NoErr)

\* C8, amended: an output no branch knows whose value evaluates produces
\* only the warning 'unknown flake output': no error, no artifact, and the
\* validation goes on; one whose value fails to evaluate ends the validation
\* with that evaluation error, as the value of every output is forced before
\* its name is looked at.
C8_WarnIfEvaluates ==
    [][(cmd = "check" /\ pc = "outputs" /\ next # 0 /\ OutputNames[next] \notin KnownOutputs) =>
        /\ drvPaths' = drvPaths /\ built' = built
        /\ IF vOutput'.type = "tThunk"
           THEN /\ pc' = "failed" /\ warnings' = warnings
                /\ err'.msg = "evaluation error"
           ELSE /\ pc' = "return" /\ err' = NoErr
                /\ warnings' = Append(warnings, OutputNames[next])
       ]_vars

\* an output no branch knows was warned about with an other output to come
C8_Witness ==
    /\ AfterUnknown /\ pc = "return" /\ next # 0
    /\ warnings = <<outputName>> /\ drvPaths # <<>> /\ err = NoErr

\* C9: hydraJobs that is a derivation fails with 'jobset should not be a
\* derivation at top-level'; a derivation under a jobset of hydraJobs
\* passes, is not gone into and adds no artifact; that error is raised by no
\* nested call of checkHydraJobs.
C9_HydraJobs ==
    /\ [](cmd = "check" /\ outputName = "hydraJobs" /\ isDerivation(vOutput) =>
            /\ pc = "failed"
            /\ err.msg = "jobset should not be a derivation at top-level")
    /\ [](err.msg = "jobset should not be a derivation at top-level" =>
            err.prefix = <<[what |-> "while checking flake output", path |-> "hydraJobs"],
                           [what |-> "while checking the Hydra jobset", path |-> "hydraJobs"]>>)
    /\ [][(cmd = "check" /\ pc = "hydra" /\ attr' # attr /\ isDerivation(attr'.value)) =>
            /\ pc' = "hydra" /\ err' = NoErr
            /\ Len(frames') = Len(frames)
            /\ drvPaths' = drvPaths
         ]_vars

\* a derivation two jobsets below hydraJobs has passed
C9_Witness ==
    /\ cmd = "check" /\ pc = "hydra" /\ Len(frames) = 2
    /\ isDerivation(attr.value) /\ err = NoErr /\ drvPaths = <<>>

\* the value checkOverlay was just called with, in a step of the overlay or
\* of the overlays branch
OverlayStep ==
    /\ cmd = "check"
    /\ \/ pc = "outputs" /\ next # 0 /\ OutputNames[next] = "overlay"
       \/ pc = "loop" /\ outputName = "overlays" /\ pc' # "return"
OverlayValue == IF pc = "outputs" THEN vOutput' ELSE attr'.value

HasFinal(v) == v.type = "tLambda" /\ ~v.matchAttrs /\ v.arg = "final"
HasPrev(v) == v.body.lambda /\ ~v.body.matchAttrs /\ v.body.arg = "prev"

\* C10: an overlay value fails with the 'final' message when it is no
\* function of one plain argument named final, with the 'prev' message when
\* it is one whose body is not itself a function of one plain argument named
\* prev, and passes, with no artifact added, exactly when it is
\* final: prev: <body>.
C10_Overlay ==
    [][(OverlayStep /\ OverlayValue.type # "tThunk") =>
        /\ drvPaths' = drvPaths
        /\ IF ~HasFinal(OverlayValue)
           THEN /\ pc' = "failed"
                /\ err'.msg = "overlay does not take an argument named 'final'"
           ELSE IF ~HasPrev(OverlayValue)
           THEN /\ pc' = "failed"
                /\ err'.msg = "overlay does not take an argument named 'prev'"
           ELSE pc' # "failed" /\ err' = NoErr
       ]_vars

\* overlays.n1 = final: prev: <body> has passed
C10_Witness ==
    /\ cmd = "check" /\ pc = "attr" /\ outputName = "overlays"
    /\ HasFinal(attr.value) /\ HasPrev(attr.value) /\ err = NoErr

\* the prefix the callback's catch adds for the output named n, and those
\* the catches of the checkHydraJobs calls frs add
OutputPrefix(n) == [what |-> "while checking flake output", path |-> n]
HydraPrefixes(frs) ==
    [i \in 1..Len(frs) |-> [what |-> "while checking the Hydra jobset", path |-> frs[i].path]]

\* the kinds of the prefixes of e, outermost first
Whats(e) == [i \in 1..Len(e.prefix) |-> e.prefix[i].what]

\* the prefixes under that of the output with which a message of a checker
\* reaches the caller
CheckerWhats(msg) ==
    CASE msg = "is not a valid system type" -> <<>>
      [] msg = "is not a derivation" -> <<"while checking the derivation">>
      [] msg = "not an app definition" -> <<"while checking the app definition">>
      [] msg \in {"overlay does not take an argument named 'final'",
                  "overlay does not take an argument named 'prev'"}
            -> <<"while checking the overlay">>
      [] msg \in {"module must be a function or an attribute set",
                  "module must match an open attribute set ('{ config, ... }')"}
            -> <<"while checking the NixOS module">>
      [] msg \in {"attribute 'config.system.build.toplevel' is not a derivation",
                  "attribute in selection path not found"}
            -> <<"while checking the NixOS configuration">>
      [] msg = "jobset should not be a derivation at top-level"
            -> <<"while checking the Hydra jobset">>

\* the messages that only a checker raises
CheckerMsgs ==
    {"is not a valid system type", "is not a derivation", "not an app definition",
     "overlay does not take an argument named 'final'",
     "overlay does not take an argument named 'prev'",
     "module must be a function or an attribute set",
     "module must match an open attribute set ('{ config, ... }')",
     "attribute 'config.system.build.toplevel' is not a derivation",
     "attribute in selection path not found",
     "jobset should not be a derivation at top-level"}

\* an error of the validation of an output has reached the caller of run
Raised == cmd = "check" /\ pc = "failed" /\ err.msg # "build failed"

\* C11: an error raised while an output is validated reaches the caller
\* with its message and with one prefix for each catch around the place
\* where it was raised, outermost first: that of the output first, then that
\* of the checker; an error raised in the checkHydraJobs call at depth k has
\* after the output's prefix the k+1 Hydra prefixes of the paths from
\* hydraJobs down to that call; a value that fails to evaluate under a
\* checker ends the validation.
C11_ErrorPrefixes ==
    /\ [](Raised =>
            /\ err.prefix # <<>> /\ err.prefix[1] = OutputPrefix(outputName)
            /\ \A i \in 2..Len(err.prefix) : err.prefix[i].what # "while checking flake output"
            /\ err.msg \in CheckerMsgs => Whats(err) = <<"while checking flake output">> \o CheckerWhats(err.msg))
    /\ [](cmd = "check" /\ frames # <<>> =>
            /\ frames[1].path = "hydraJobs"
            /\ \A i \in 1..(Len(frames) - 1) :
                frames[i + 1].path = frames[i].path \o "." \o AttrName(frames[i].n))
    /\ [][(cmd = "check" /\ pc = "hydra" /\ attr' # attr /\ attr'.value.type # "tAttrs") =>
            /\ pc' = "failed"
            /\ err'.msg = IF attr'.value.type = "tThunk" THEN "evaluation error"
                          ELSE "value is not a set"
            /\ err'.prefix = <<OutputPrefix("hydraJobs")>> \o HydraPrefixes(frames)
         ]_vars
    /\ [][(cmd = "check" /\ attr' # attr /\ attr'.value.type = "tThunk"
           /\ OutputNames[oidx] # "legacyPackages") =>
            /\ pc' = "failed"
            /\ err'.msg \in {"evaluation error", "is not a valid system type"}
         ]_vars

\* the second attribute of the jobset hydraJobs.n1 failed to evaluate: the
\* error has the prefixes of hydraJobs and of hydraJobs.n1
C11_Witness ==
    /\ Raised /\ err.msg = "evaluation error"
    /\ err.prefix = <<OutputPrefix("hydraJobs")>>
                    \o HydraPrefixes(<<[path |-> "hydraJobs", n |-> 1],
                                       [path |-> "hydraJobs.n1", n |-> 1]>>)
    /\ attr.name = "n2"

\* the derivations of the references in context that name an output of a
\* derivation, from reference i on, in the order of the context
RECURSIVE OutputRefs(_, _)
OutputRefs(context, i) ==
    IF i > Len(CtxRefs) THEN <<>>
    ELSE (IF CtxRefs[i] \in context /\ CtxRefs[i].output # ""
             /\ CtxRefs[i].path \in DrvPathNames
          THEN <<CtxRefs[i].path>> ELSE <<>>)
         \o OutputRefs(context, i + 1)

\* those of the apps before the first entry that is no app
RECURSIVE AppsOutputRefs(_)
AppsOutputRefs(as) ==
    IF as = <<>> \/ ~IsApp(Head(as)) THEN <<>>
    ELSE OutputRefs(Head(as).context, 1) \o AppsOutputRefs(Tail(as))

\* a round of the loop of the apps or of the defaultApp branch on a key
\* that is a system
AppsRound ==
    /\ cmd = "check" /\ pc = "loop" /\ pc' # "return"
    /\ outputName \in {"apps", "defaultApp"}
    /\ HasHyphen(attr'.name)

\* C12: a round of apps or defaultApp on a system key, whichever system it
\* is, adds to drvPaths, for each app it comes to, the derivation of each
\* context reference that names an output of a derivation, and nothing else.
C12_AppContexts ==
    [][AppsRound =>
        drvPaths' = drvPaths \o
            (IF outputName = "defaultApp"
             THEN IF IsApp(attr'.value) THEN OutputRefs(attr'.value.context, 1) ELSE <<>>
             ELSE IF attr'.value.type = "tAttrs" THEN AppsOutputRefs(attr'.value.attrs)
             ELSE <<>>)
      ]_vars

\* apps of a system other than the current one: of an app with a reference
\* to an output of d2.drv and a reference to a source, d2.drv was added
C12_Witness ==
    /\ cmd = "check" /\ pc = "attr" /\ outputName = "apps"
    /\ attr.name # thisSystem
    /\ attr.value.type = "tAttrs" /\ attr.value.attrs = <<AppV({CtxRefs[3], CtxRefs[5]})>>
    /\ drvPaths = <<"d2.drv">>

\* the value checkModule was just called with
AfterModule ==
    /\ cmd = "check" /\ pc \in {"attr", "return", "failed"}
    /\ \/ outputName = "nixosModule" /\ vOutput # NoValue /\ pc # "attr"
       \/ outputName = "nixosModules" /\ attr # NoAttr /\ pc # "return"
ModuleValue == IF outputName = "nixosModule" THEN vOutput ELSE attr.value

OpenFunction(v) == v.type = "tLambda" /\ v.matchAttrs /\ v.ellipsis
MembersForce(v) == v.type = "tAttrs" /\ \A i \in 1..Len(v.attrs) : v.attrs[i].type # "tThunk"

\* C13, as claimed: a module passes exactly when it is a function of an
\* open argument set or an attribute set whose members all force, and every
\* other value fails with 'module must be a function or an attribute set'.
C13_OneMessage ==
    (AfterModule /\ ModuleValue.type # "tThunk") =>
        IF OpenFunction(ModuleValue) \/ MembersForce(ModuleValue)
        THEN pc # "failed"
        ELSE pc = "failed" /\ err.msg = "module must be a function or an attribute set"

\* C13, amended: a module passes exactly when it is a function of an open
\* argument set or an attribute set whose members all force; a function
\* that takes no open argument set fails with 'module must match an open
\* attribute set'; an attribute set with a member that fails to force fails
\* with the error of that member, prefixed with 'while evaluating the
\* option'; a value that is neither fails with 'module must be a function
\* or an attribute set'.
C13_Module ==
    (AfterModule /\ ModuleValue.type # "tThunk") =>
        /\ pc # "failed" <=> (OpenFunction(ModuleValue) \/ MembersForce(ModuleValue))
        /\ pc = "failed" =>
            /\ Whats(err)[2] = "while checking the NixOS module"
            /\ CASE ModuleValue.type = "tLambda" ->
                      err.msg = "module must match an open attribute set ('{ config, ... }')"
                 [] ModuleValue.type = "tAttrs" ->
                      /\ err.msg = "evaluation error"
                      /\ Whats(err)[3] = "while evaluating the option"
                 [] OTHER -> err.msg = "module must be a function or an attribute set"

\* nixosModules.n1 is a function of a plain argument: it was rejected with
\* the message about the open attribute set
C13_Witness ==
    /\ AfterModule /\ outputName = "nixosModules" /\ pc = "failed"
    /\ ModuleValue.type = "tLambda" /\ ~ModuleValue.matchAttrs
    /\ err.msg = "module must match an open attribute set ('{ config, ... }')"

\* the nodes under node, input i on, in the order of PreOrder
RECURSIVE PreOrderNodes(_, _, _)
PreOrderNodes(l, node, i) ==
    IF i > Len(l[node]) THEN <<>>
    ELSE <<l[node][i]>> \o PreOrderNodes(l, l[node][i], 1) \o PreOrderNodes(l, node, i + 1)

\* the values of the path attributes in the JSON o
RECURSIVE JsonPaths(_)
JsonPaths(o) ==
    IF o = <<>> THEN <<>>
    ELSE (IF Head(o).t = "attr" /\ Head(o).key = "path" THEN <<Head(o).value>> ELSE <<>>)
         \o JsonPaths(Tail(o))

\* C14: at the end of flake archive, the set of source paths and the paths
\* in the JSON are those of the lock file alone, with or without dryRun;
\* with dryRun nothing was fetched and nothing copied; a copy was made
\* exactly when dryRun is off and a destination store is given, and it is
\* one copy of the set of source paths.
C14_DryRun ==
    (cmd = "archive" /\ pc = "done") =>
        /\ {sources[i] : i \in 1..Len(sources)}
             = {rootStorePath} \cup {computeStorePath(c) : c \in Locked(lock)}
        /\ json => JsonPaths(out) =
             <<rootStorePath>> \o [i \in 1..Len(PreOrderNodes(lock, 0, 1)) |->
                                     computeStorePath(PreOrderNodes(lock, 0, 1)[i])]
        /\ dryRun => (fetched = <<>> /\ copied = <<>>)
        /\ copied # <<>> <=> (~dryRun /\ dstUri # "")
        /\ copied # <<>> => copied = <<[dstUri |-> dstUri, paths |-> sources]>>

\* a dry run with a destination store over a lock file with two locked
\* nodes has ended: three source paths, no fetch, no copy
C14_Witness ==
    /\ cmd = "archive" /\ pc = "done" /\ dryRun /\ dstUri # "" /\ json
    /\ lock[0] = <<1>> /\ lock[1] = <<2>>
    /\ sources = <<"p0", "p1", "p2">> /\ fetched = <<>> /\ copied = <<>>
    /\ JsonPaths(out) = <<"p0", "p1", "p2">>

\* the number of paths in l from node to c
RECURSIVE NumPaths(_, _, _)
NumPaths(l, node, c) ==
    IF l[node] = <<>> THEN 0
    ELSE LET first == l[node][1]
             rest == [l EXCEPT ![node] = Tail(l[node])]
         IN  (IF first = c THEN 1 ELSE 0) + NumPaths(l, first, c) + NumPaths(rest, node, c)

\* how often the output o has an entry of kind t for the input c
Entries(o, t, c) == Cardinality({i \in 1..Len(o) : o[i].t = t /\ o[i].key = InputName(c)})

\* C17: at the end of a traversal, a locked node that k paths lead to from
\* the root was fetched k times by archive without dryRun, has k objects in
\* the JSON of archive and k lines in the tree of list-inputs, and its path
\* is in the set of source paths once.
C17_OncePerPath ==
    pc = "done" =>
        \A c \in LockNodes \ {0} :
            /\ (cmd = "archive" /\ ~dryRun) => Count(fetched, c) = NumPaths(lock, 0, c)
            /\ (cmd = "archive" /\ json) => Entries(out, "{", c) = NumPaths(lock, 0, c)
            /\ (cmd = "archive" /\ NumPaths(lock, 0, c) > 0) =>
                    Count(sources, computeStorePath(c)) = 1
            /\ (cmd = "list-inputs" /\ ~json) => Entries(out, "line", c) = NumPaths(lock, 0, c)

\* node 2 is an input of the root and of node 1: archive without dryRun has
\* fetched it twice and written two objects for it
C17_Witness ==
    /\ cmd = "archive" /\ pc = "done" /\ ~dryRun /\ json
    /\ lock[0] = <<1, 2>> /\ lock[1] = <<2>>
    /\ fetched = <<1, 2, 2>> /\ Entries(out, "{", 2) = 2
    /\ sources = <<"p0", "p1", "p2">>

\* recurse or traverse is walking, or has walked, the lock file
Walking == cmd \in {"archive", "list-inputs"} /\ ~(cmd = "list-inputs" /\ json)

\* a node the root reaches is reached from its own inputs
HasCycle(l) == \E n \in Locked(l) : n \in Reachable(l, Kids(l, n), MaxNode)

\* C15: over a lock file without a cycle the traversals of list-inputs and
\* of archive end, with never more nested calls than the lock file has
\* nodes; over a lock file with a cycle that the root reaches they never
\* end: the calls nest ever deeper, past every number of calls.
C15_Termination ==
    /\ [](Walking /\ HasCycle(lock) => pc \notin {"copy", "done"})
    /\ [](Walking /\ ~HasCycle(lock) => Len(stack) <= MaxNode + 1)
    /\ (Walking /\ ~HasCycle(lock)) ~> (pc = "done")
    /\ (Walking /\ HasCycle(lock)) ~> (Len(stack) = MaxStack)

\* over a lock file in which node 2 is its own input the calls of traverse
\* have nested as deep as the model follows them
C15_Witness ==
    /\ cmd = "archive" /\ pc = "traverse" /\ HasCycle(lock)
    /\ lock[MaxNode] = <<MaxNode>>
    /\ Len(stack) = MaxStack

\* a step of flake show in which visit is called, and the node it is called
\* for
VisitStep == cmd = "show" /\ pc = "visit" /\ visitor' # visitor
UnderLegacy(attrPath) == Len(attrPath) > 0 /\ attrPath[1] = "legacyPackages"

\* the nodes whose value visit reads
Evaluated(attrPath) ==
    ~ \/ attrPath[1] \in {"overlay", "lib"}
      \/ Len(attrPath) = 2 /\ attrPath[1] \in {"nixosConfigurations", "nixosModules"}
      \/ UnderLegacy(attrPath) /\ Len(attrPath) >= 2 /\ ~showLegacy

\* the loop of the call around the one for the node goes on to the next
\* attribute
NextSibling ==
    /\ pc' = "visit" /\ err' = NoErr
    /\ Len(visits') >= Len(visits)
    /\ \A k \in 1..Len(visits) : visits'[k].attrPath = visits[k].attrPath
    /\ visits'[Len(visits)].i > visits[Len(visits)].i

\* C16: in flake show, no call of visit for a node under legacyPackages ends
\* the traversal: an evaluation error of the node ends at the node, and the
\* loop around it goes on to the next attribute; at a node not under
\* legacyPackages an evaluation error ends the whole traversal, and the
\* error is that of the node.
C16_ShowLegacy ==
    /\ [][(VisitStep /\ UnderLegacy(visitor'.attrPath)) =>
            /\ NextSibling
            /\ (Evaluated(visitor'.attrPath) /\ visitor'.value.type = "tThunk") =>
                    Len(visits') = Len(visits)
         ]_vars
    /\ [][(VisitStep /\ ~UnderLegacy(visitor'.attrPath) /\ Evaluated(visitor'.attrPath)
           /\ visitor'.value.type = "tThunk") =>
            /\ pc' = "failed" /\ visits' = <<>>
            /\ err'.msg = "evaluation error"
         ]_vars
    /\ [](cmd = "show" /\ pc = "failed" => ~UnderLegacy(visitor.attrPath) /\ visits = <<>>)
    /\ [][cmd = "show" => pc # "failed"]_vars

\* with --legacy, legacyPackages.n1.n1 failed to evaluate: the traversal is
\* still in the loop over legacyPackages.n1
C16_Witness ==
    /\ cmd = "show" /\ pc = "visit" /\ showLegacy /\ err = NoErr
    /\ visitor = [attrPath |-> <<"legacyPackages", "n1", "n1">>, value |-> ThunkV]
    /\ Len(visits) = 3 /\ visits[3] = [attrPath |-> <<"legacyPackages", "n1">>, i |-> 1]

====
